---- MODULE Spec2Model ----
(***************************************************************************)
(* CometApp (comet/app.go): the ABCI application of cometbft-baseapp and   *)
(* its durable store.  The consensus engine calls the handlers one at a    *)
(* time (the local ABCI client serialises them); the process may crash at  *)
(* any point, also between the statements of Commit, and is then started   *)
(* again by NewCometApp on the same store.                                 *)
(*                                                                         *)
(* Byte strings are kept run-length encoded: a sequence of runs <<b, n>>,  *)
(* the byte b repeated n >= 1 times, adjacent runs holding different       *)
(* bytes.  Every byte string has exactly one such form, so equality of     *)
(* forms is equality of byte strings.  A nil slice and a missing key are   *)
(* both the empty string: the program never builds a non-nil empty slice.  *)
(***************************************************************************)
EXTENDS Integers, Sequences, FiniteSets, TLC

\* Highest block height the engine drives the application to.
MaxHeight == 257

\* Proposal runs: the largest byte budget, the least budget is -MaxNegBudget,
\* the longest candidate list and the longest transaction.
MaxBudget == 6
MaxNegBudget == 2
MaxTxs == 3
MaxTxLen == 3
MaxReplicaHeight == 2

\* ------------------------------------------------------------------ bytes

nil == <<>>

Byte(b) == <<<<b, 1>>>>

Run(b, n) == IF n = 0 THEN <<>> ELSE <<<<b, n>>>>

\* Concatenation of two byte strings (h.Write after h.Write, append).
Cat(x, y) ==
    IF x = <<>> THEN y
    ELSE IF y = <<>> THEN x
    ELSE IF x[Len(x)][1] = y[1][1]
         THEN SubSeq(x, 1, Len(x) - 1)
                \o <<<<y[1][1], x[Len(x)][2] + y[1][2]>>>>
                \o Tail(y)
         ELSE x \o y

RECURSIVE BytesLen(_)
\* len(x)
BytesLen(x) == IF x = <<>> THEN 0 ELSE x[1][2] + BytesLen(Tail(x))

\* x[0]
FirstByte(x) == x[1][1]

RECURSIVE BigEndian(_, _)
\* The n low-order bytes of h, most significant first.
BigEndian(h, n) ==
    IF n = 0 THEN <<>> ELSE Cat(BigEndian(h \div 256, n - 1), Byte(h % 256))

\* binary.BigEndian.PutUint64(hb[:], uint64(h)), for h >= 0.
PutUint64(h) == BigEndian(h, 8)

\* []byte{byte(h)}: the low-order byte of h alone.
HeightByte(h) == Byte(h % 256)

RECURSIVE ConcatTxs(_)
\* The bytes written to the hash by the loop over req.Txs.
ConcatTxs(txs) ==
    IF txs = <<>> THEN <<>> ELSE Cat(txs[1], ConcatTxs(Tail(txs)))

\* sha256 of msg.  A digest is kept as the message it digests: two digests
\* are equal exactly when the messages are (no collisions).
Sha256Sum(msg) == msg

\* The AppHash FinalizeBlock computes for (height, txs).
ComputeAppHash(height, txs) == Sha256Sum(Cat(PutUint64(height), ConcatTxs(txs)))

\* ------------------------------------------------------------------ store

KeyLastAppHash == "lastAppHash"
KeyLastHeight == "lastHeight"

EmptyDB == [k \in {} |-> nil]

\* db.Get: the value of key, nil when the key is missing.
Get(store, key) == IF key \in DOMAIN store THEN store[key] ELSE nil

\* The state of (store, batch) after b.Set(key, value) and whether it failed.
\* A batch refuses a nil value; a Set is buffered and leaves the store alone.
BatchSetDirect(store, b, key, value) ==
    [err |-> value = nil,
     store |-> IF value = nil THEN store ELSE (key :> value) @@ store,
     batch |-> b]

BatchSet(store, b, key, value) ==
    [err |-> value = nil,
     store |-> store,
     batch |-> IF value = nil THEN b ELSE Append(b, <<key, value>>)]

RECURSIVE WriteSync(_, _)
\* The store after the whole batch is flushed, its writes applied in order.
WriteSync(store, b) ==
    IF b = <<>> THEN store
    ELSE WriteSync((b[1][1] :> b[1][2]) @@ store, Tail(b))

\* The reader with the height of a store without entries taken to be 1.
GetLastBlockHashAndHeightFromOne(store) ==
    LET lastHash == Get(store, KeyLastAppHash)
        heightBytes == Get(store, KeyLastHeight)
    IN  <<lastHash, IF BytesLen(heightBytes) > 0 THEN FirstByte(heightBytes) ELSE 1>>

\* GetLastBlockHashAndHeight(db): <<lastHash, height>>.
GetLastBlockHashAndHeight(store) ==
    LET lastHash == Get(store, KeyLastAppHash)
        heightBytes == Get(store, KeyLastHeight)
    IN  <<lastHash, IF BytesLen(heightBytes) > 0 THEN FirstByte(heightBytes) ELSE 0>>


\* ------------------------------------------------------------------ inputs

TxA == Byte(97)
TxB == Byte(98)
TxC == Byte(99)
TxAB == Cat(TxA, TxB)
TxBC == Cat(TxB, TxC)

\* The transaction lists the engine hands to FinalizeBlock.
BlockTxs == {<<>>, <<TxA>>, <<TxAB, TxC>>, <<TxA, TxBC>>}

\* The transactions the mempool hands to CheckTx.
MempoolTxs == {nil, TxA, TxAB}

\* The requests clients send to Query: <<path, data>>.
QueryRequests == {<<"/kv", KeyLastHeight>>, <<"", nil>>}

\* ------------------------------------------------------------------ state

VARIABLES
    db,          \* the durable store: key -> value, for the keys present
    lastHash,    \* CometApp.lastHash
    lastHeight,  \* CometApp.lastHeight
    batch,       \* the batch b of a running Commit: <<key, value>> writes
    pc,          \* the statement of Commit the process is at, "Idle" outside it
    running,     \* FALSE between a crash and the next start
    resp,        \* the last request served and the response returned to it
    engine,      \* the engine's record of the last block it saw committed
    executed,    \* the engine has had a block executed that is not committed yet
    peer         \* a second replica: its store, its CometApp fields, its last response

vars == <<db, lastHash, lastHeight, batch, pc, running, resp, engine, executed, peer>>

\* NewCometApp(db): the fields of the new application.
NewCometApp(store) ==
    [lastHash |-> GetLastBlockHashAndHeight(store)[1],
     lastHeight |-> GetLastBlockHashAndHeight(store)[2]]

\* The second replica, built on a fresh store of its own.
NewPeer ==
    [db |-> EmptyDB,
     lastHash |-> NewCometApp(EmptyDB).lastHash,
     lastHeight |-> NewCometApp(EmptyDB).lastHeight,
     resp |-> [op |-> "NewCometApp", err |-> FALSE]]

Init ==
    /\ db = EmptyDB
    /\ lastHash = NewCometApp(EmptyDB).lastHash
    /\ lastHeight = NewCometApp(EmptyDB).lastHeight
    /\ batch = <<>>
    /\ pc = "Idle"
    /\ running = TRUE
    /\ resp = [op |-> "NewCometApp", err |-> FALSE]
    /\ engine = [height |-> 0, appHash |-> nil]
    /\ executed = FALSE
    /\ peer = NewPeer

\* A handler can be entered: the process is up and no other handler runs.
Ready == running /\ pc = "Idle"

\* ------------------------------------------------------------------ handlers

CheckTx(tx) ==
    /\ Ready
    /\ resp' = [op |-> "CheckTx", err |-> FALSE, req |-> tx]
    /\ UNCHANGED <<db, lastHash, lastHeight, batch, pc, running, engine, executed, peer>>

RECURSIVE PrepareLoopLateCheck(_, _, _, _)
\* The loop with the budget compared before the transaction is counted.
PrepareLoopLateCheck(txs, maxTxBytes, out, sz) ==
    IF txs = <<>> THEN out
    ELSE IF sz > maxTxBytes THEN out
    ELSE PrepareLoopLateCheck(Tail(txs), maxTxBytes, Append(out, txs[1]),
                              sz + BytesLen(txs[1]))

RECURSIVE PrepareLoopSkipping(_, _, _, _)
\* The loop with continue in place of break: a transaction that does not fit
\* is skipped and later ones are still tried.
PrepareLoopSkipping(txs, maxTxBytes, out, sz) ==
    IF txs = <<>> THEN out
    ELSE IF sz + BytesLen(txs[1]) > maxTxBytes
         THEN PrepareLoopSkipping(Tail(txs), maxTxBytes, out, sz)
    ELSE PrepareLoopSkipping(Tail(txs), maxTxBytes, Append(out, txs[1]),
                             sz + BytesLen(txs[1]))

RECURSIVE PrepareLoop(_, _, _, _)
\* The loop of PrepareProposal over the transactions left, with out and sz.
PrepareLoop(txs, maxTxBytes, out, sz) ==
    IF txs = <<>> THEN out
    ELSE IF sz + BytesLen(txs[1]) > maxTxBytes THEN out
    ELSE PrepareLoop(Tail(txs), maxTxBytes, Append(out, txs[1]),
                     sz + BytesLen(txs[1]))

\* PrepareProposalResponse.Txs
PrepareProposalTxs(txs, maxTxBytes) == PrepareLoop(txs, maxTxBytes, <<>>, 0)

PrepareProposal(txs, maxTxBytes) ==
    /\ Ready
    /\ resp' = [op |-> "PrepareProposal", err |-> FALSE,
                req |-> [Txs |-> txs, MaxTxBytes |-> maxTxBytes],
                Txs |-> PrepareProposalTxs(txs, maxTxBytes)]
    /\ UNCHANGED <<db, lastHash, lastHeight, batch, pc, running, engine, executed, peer>>

RECURSIVE TotalBytes(_)
\* sz after the loop of ProcessProposal.
TotalBytes(txs) ==
    IF txs = <<>> THEN 0 ELSE BytesLen(txs[1]) + TotalBytes(Tail(txs))

maxTxsBytes == 1000000

\* ProcessProposalResponse.Status
ProcessProposalStatus(txs) ==
    IF maxTxsBytes > 0 /\ TotalBytes(txs) > maxTxsBytes THEN "REJECT" ELSE "ACCEPT"

ProcessProposal(txs) ==
    /\ Ready
    /\ resp' = [op |-> "ProcessProposal", err |-> FALSE,
                req |-> [Txs |-> txs],
                Status |-> ProcessProposalStatus(txs)]
    /\ UNCHANGED <<db, lastHash, lastHeight, batch, pc, running, engine, executed, peer>>

\* A nil *abci.ExecTxResult, and the result the loop stores for a transaction.
NilResult == [isNil |-> TRUE, Code |-> 0]
ExecTxResult == [isNil |-> FALSE, Code |-> 0]

\* make([]*abci.ExecTxResult, n): n nil entries.
MakeResults(n) == [i \in 1..n |-> NilResult]

RECURSIVE ResultsLoopFromSecond(_, _, _)
\* The loop starting one index late: the first entry is never stored.
ResultsLoopFromSecond(results, txs, i) ==
    IF i + 1 > Len(txs) THEN results
    ELSE ResultsLoopFromSecond([results EXCEPT ![i + 1] = ExecTxResult], txs, i + 1)

RECURSIVE ResultsLoop(_, _, _)
\* for i, tx := range req.Txs { results[i] = &abci.ExecTxResult{...} }, from
\* index i (counted from 1) on.
ResultsLoop(results, txs, i) ==
    IF i > Len(txs) THEN results
    ELSE ResultsLoop([results EXCEPT ![i] = ExecTxResult], txs, i + 1)

\* FinalizeBlockResponse.TxResults
TxResults(txs) == ResultsLoop(MakeResults(Len(txs)), txs, 1)

\* The application a handler runs on: its fields and its store.
Self == [lastHash |-> lastHash, lastHeight |-> lastHeight, db |-> db]

\* The digest chained on what the replica's store holds.
FinalizeBlockAppHashFromStore(app, height, txs) ==
    Sha256Sum(Cat(Get(app.db, KeyLastHeight),
                  Cat(PutUint64(height), ConcatTxs(txs))))

\* The digest chained on the AppHash the replica holds before the block.
FinalizeBlockAppHashChained(app, height, txs) ==
    Sha256Sum(Cat(app.lastHash, Cat(PutUint64(height), ConcatTxs(txs))))

\* h := sha256.New(); the height; every tx; h.Sum(nil): the digest
\* FinalizeBlock computes on the replica app.
FinalizeBlockAppHash(app, height, txs) == ComputeAppHash(height, txs)

FinalizeBlockPersisting(height, txs) ==
    /\ Ready
    /\ lastHeight' = height
    /\ lastHash' = FinalizeBlockAppHash(Self, height, txs)
    /\ db' = (KeyLastAppHash :> FinalizeBlockAppHash(Self, height, txs)) @@ db
    /\ resp' = [op |-> "FinalizeBlock", err |-> FALSE,
                req |-> [Height |-> height, Txs |-> txs],
                prior |-> lastHash,
                AppHash |-> FinalizeBlockAppHash(Self, height, txs),
                TxResults |-> TxResults(txs)]
    /\ executed' = TRUE
    /\ UNCHANGED <<batch, pc, running, engine, peer>>

FinalizeBlock(height, txs) ==
    /\ Ready
    /\ lastHeight' = height
    /\ lastHash' = FinalizeBlockAppHash(Self, height, txs)
    /\ resp' = [op |-> "FinalizeBlock", err |-> FALSE,
                req |-> [Height |-> height, Txs |-> txs],
                prior |-> lastHash,
                AppHash |-> FinalizeBlockAppHash(Self, height, txs),
                TxResults |-> TxResults(txs)]
    /\ executed' = TRUE
    /\ UNCHANGED <<db, batch, pc, running, engine, peer>>

\* InfoResponse: <<LastBlockHeight, LastBlockAppHash>>.
InfoResponse == [LastBlockHeight |-> lastHeight, LastBlockAppHash |-> lastHash]

\* Info counting itself as a block.
InfoAdvancing ==
    /\ Ready
    /\ resp' = [op |-> "Info", err |-> FALSE,
                LastBlockHeight |-> InfoResponse.LastBlockHeight,
                LastBlockAppHash |-> InfoResponse.LastBlockAppHash]
    /\ lastHeight' = lastHeight + 1
    /\ UNCHANGED <<db, lastHash, batch, pc, running, engine, executed, peer>>

Info ==
    /\ Ready
    /\ resp' = [op |-> "Info", err |-> FALSE,
                LastBlockHeight |-> InfoResponse.LastBlockHeight,
                LastBlockAppHash |-> InfoResponse.LastBlockAppHash]
    /\ UNCHANGED <<db, lastHash, lastHeight, batch, pc, running, engine, executed, peer>>

Query(q) ==
    /\ Ready
    /\ resp' = [op |-> "Query", err |-> FALSE, req |-> q, Code |-> 0, Value |-> nil]
    /\ UNCHANGED <<db, lastHash, lastHeight, batch, pc, running, engine, executed, peer>>

\* ------------------------------------------------------------------ Commit

\* Commit up to and including b.Set("lastAppHash", lastHash): app.CommitData
\* returns no error, the batch is opened, the first write is buffered.
CommitSetAppHash ==
    /\ Ready
    /\ LET r == BatchSet(db, <<>>, KeyLastAppHash, lastHash)
       IN  /\ db' = r.store
           /\ IF r.err
              THEN /\ pc' = "Idle"
                   /\ batch' = <<>>
                   /\ resp' = [op |-> "Commit", err |-> TRUE, done |-> TRUE]
              ELSE /\ pc' = "SetHeight"
                   /\ batch' = r.batch
                   /\ resp' = [op |-> "Commit", err |-> FALSE, done |-> FALSE]
    /\ UNCHANGED <<lastHash, lastHeight, running, engine, executed, peer>>

\* b.Set("lastHeight", []byte{byte(lastHeight)})
CommitSetHeight ==
    /\ running
    /\ pc = "SetHeight"
    /\ LET r == BatchSet(db, batch, KeyLastHeight, HeightByte(lastHeight))
       IN  /\ db' = r.store
           /\ IF r.err
              THEN /\ pc' = "Idle"
                   /\ batch' = <<>>
                   /\ resp' = [op |-> "Commit", err |-> TRUE, done |-> TRUE]
              ELSE /\ pc' = "WriteSync"
                   /\ batch' = r.batch
                   /\ resp' = resp
    /\ UNCHANGED <<lastHash, lastHeight, running, engine, executed, peer>>

\* b.WriteSync() succeeds and Commit returns its response.
CommitWriteSync ==
    /\ running
    /\ pc = "WriteSync"
    /\ db' = WriteSync(db, batch)
    /\ batch' = <<>>
    /\ pc' = "Idle"
    /\ resp' = [op |-> "Commit", err |-> FALSE, done |-> TRUE]
    /\ engine' = IF executed
                 THEN [height |-> lastHeight, appHash |-> lastHash]
                 ELSE engine
    /\ executed' = FALSE
    /\ UNCHANGED <<lastHash, lastHeight, running, peer>>

\* b.WriteSync() fails: nothing reaches the store and Commit returns the error.
CommitWriteSyncFails ==
    /\ running
    /\ pc = "WriteSync"
    /\ batch' = <<>>
    /\ pc' = "Idle"
    /\ resp' = [op |-> "Commit", err |-> TRUE, done |-> TRUE]
    /\ UNCHANGED <<db, lastHash, lastHeight, running, engine, executed, peer>>

\* ------------------------------------------------------------------ process

\* The process dies where it stands; only the store survives.
Crash ==
    /\ running
    /\ running' = FALSE
    /\ resp' = [op |-> "Crash", err |-> FALSE]
    /\ UNCHANGED <<db, lastHash, lastHeight, batch, pc, engine, executed, peer>>

\* Run: the process starts and builds the application on the same store.
Restart ==
    /\ ~running
    /\ running' = TRUE
    /\ lastHash' = NewCometApp(db).lastHash
    /\ lastHeight' = NewCometApp(db).lastHeight
    /\ batch' = <<>>
    /\ pc' = "Idle"
    /\ executed' = FALSE
    /\ resp' = [op |-> "NewCometApp", err |-> FALSE]
    /\ UNCHANGED <<db, engine, peer>>

\* The engine asks for the block after the last one it saw committed.
EngineFinalizeBlock ==
    /\ engine.height < MaxHeight
    /\ \E txs \in BlockTxs : FinalizeBlock(engine.height + 1, txs)

\* The candidate lists and budgets of the proposals of a running node.
NodeProposals == {<<TxAB, TxC>>, <<Run(0, maxTxsBytes), TxA>>}
NodeBudgets == {2, maxTxsBytes + 1}

Next ==
    \/ \E tx \in MempoolTxs : CheckTx(tx)
    \/ \E txs \in NodeProposals, b \in NodeBudgets : PrepareProposal(txs, b)
    \/ \E txs \in NodeProposals : ProcessProposal(txs)
    \/ EngineFinalizeBlock
    \/ CommitSetAppHash
    \/ CommitSetHeight
    \/ CommitWriteSync
    \/ CommitWriteSyncFails
    \/ Info
    \/ \E q \in QueryRequests : Query(q)
    \/ Crash
    \/ Restart

Spec == Init /\ [][Next]_vars


\* ------------------------------------------------------------------ replicas

\* The second replica as an application.
PeerApp == [lastHash |-> peer.lastHash, lastHeight |-> peer.lastHeight, db |-> peer.db]

\* FinalizeBlock on the second replica.
PeerFinalizeBlock(height, txs) ==
    /\ peer' = [peer EXCEPT
                  !.lastHeight = height,
                  !.lastHash = FinalizeBlockAppHash(PeerApp, height, txs),
                  !.resp = [op |-> "FinalizeBlock", err |-> FALSE,
                            req |-> [Height |-> height, Txs |-> txs],
                            prior |-> peer.lastHash,
                            AppHash |-> FinalizeBlockAppHash(PeerApp, height, txs),
                            TxResults |-> TxResults(txs)]]
    /\ UNCHANGED <<db, lastHash, lastHeight, batch, pc, running, resp, engine, executed>>

\* Commit on the second replica, from its first Set to its return.
PeerCommit ==
    /\ LET r1 == BatchSet(peer.db, <<>>, KeyLastAppHash, peer.lastHash)
           r2 == BatchSet(r1.store, r1.batch, KeyLastHeight, HeightByte(peer.lastHeight))
       IN  peer' = IF r1.err \/ r2.err
                   THEN [peer EXCEPT !.resp = [op |-> "Commit", err |-> TRUE]]
                   ELSE [peer EXCEPT !.db = WriteSync(r2.store, r2.batch),
                                     !.resp = [op |-> "Commit", err |-> FALSE]]
    /\ UNCHANGED <<db, lastHash, lastHeight, batch, pc, running, resp, engine, executed>>

\* The second replica's process is stopped and started again on its store.
PeerRestart ==
    /\ peer' = [db |-> peer.db,
                lastHash |-> NewCometApp(peer.db).lastHash,
                lastHeight |-> NewCometApp(peer.db).lastHeight,
                resp |-> [op |-> "NewCometApp", err |-> FALSE]]
    /\ UNCHANGED <<db, lastHash, lastHeight, batch, pc, running, resp, engine, executed>>

\* The blocks a replica may be handed: any height up to MaxReplicaHeight, in
\* any order, so that two replicas come to a block by different histories.
ReplicaHeights == 1..MaxReplicaHeight
ReplicaTxs == {<<>>, <<TxA>>}
\* The second replica is handed one block content, at any of the heights.
PeerTxs == {<<TxA>>}

NextReplicas ==
    \/ \E h \in ReplicaHeights, txs \in ReplicaTxs : FinalizeBlock(h, txs)
    \/ CommitSetAppHash
    \/ CommitSetHeight
    \/ CommitWriteSync
    \/ CommitWriteSyncFails
    \/ CheckTx(TxA)
    \/ Query(<<"/kv", KeyLastHeight>>)
    \/ Info
    \/ Crash
    \/ Restart
    \/ \E h \in ReplicaHeights, txs \in PeerTxs : PeerFinalizeBlock(h, txs)
    \/ PeerCommit
    \/ PeerRestart

\* Two replicas, each with a store of its own, handed blocks independently.
SpecReplicas == Init /\ [][NextReplicas]_vars

\* The same bytes cut into transactions in two ways: the first replica is
\* handed them as [ab, c] (or an empty block), the second as [a, bc].
SplitTxs == {<<>>, <<TxAB, TxC>>}
PeerSplitTxs == {<<TxA, TxBC>>}

NextSplits ==
    \/ \E h \in ReplicaHeights, txs \in SplitTxs : FinalizeBlock(h, txs)
    \/ CommitSetAppHash
    \/ CommitSetHeight
    \/ CommitWriteSync
    \/ CommitWriteSyncFails
    \/ CheckTx(TxA)
    \/ Query(<<"/kv", KeyLastHeight>>)
    \/ Info
    \/ Crash
    \/ Restart
    \/ \E h \in ReplicaHeights, txs \in PeerSplitTxs : PeerFinalizeBlock(h, txs)
    \/ PeerCommit
    \/ PeerRestart

\* Two replicas handed the same block bytes cut into different transactions.
SpecSplits == Init /\ [][NextSplits]_vars

\* ------------------------------------------------------------------ proposals

\* Candidate transactions of every length up to MaxTxLen (the bytes of a
\* transaction play no part in a proposal, its length does).
ProposalTxs == {Run(7, n) : n \in 0..MaxTxLen}

\* Every candidate list of up to MaxTxs transactions.
ProposalLists == UNION {[1..n -> ProposalTxs] : n \in 0..MaxTxs}

\* Every budget from -MaxNegBudget to MaxBudget.
ProposalBudgets == (0 - MaxNegBudget)..MaxBudget

\* The node is up and the engine holds a proposal request it has not sent yet.
InitProposal ==
    /\ db = EmptyDB
    /\ lastHash = NewCometApp(EmptyDB).lastHash
    /\ lastHeight = NewCometApp(EmptyDB).lastHeight
    /\ batch = <<>>
    /\ pc = "Idle"
    /\ running = TRUE
    /\ engine = [height |-> 0, appHash |-> nil]
    /\ executed = FALSE
    /\ peer = NewPeer
    /\ \E txs \in ProposalLists, b \in ProposalBudgets :
         resp = [op |-> "ProposalPending", err |-> FALSE,
                 req |-> [Txs |-> txs, MaxTxBytes |-> b]]

\* The engine sends the pending request to PrepareProposal.
SendPrepareProposal ==
    /\ resp.op = "ProposalPending"
    /\ PrepareProposal(resp.req.Txs, resp.req.MaxTxBytes)

\* The engine sends the pending list to ProcessProposal.
SendProcessProposal ==
    /\ resp.op = "ProposalPending"
    /\ ProcessProposal(resp.req.Txs)

NextProposal ==
    \/ SendPrepareProposal
    \/ SendProcessProposal

\* The proposal handlers alone, over every small candidate list and budget.
SpecProposal == InitProposal /\ [][NextProposal]_vars

\* ------------------------------------------------------------------ claims

\* What Info would report right after a start on store.
InfoAfterRestart(store) ==
    [LastBlockHeight |-> NewCometApp(store).lastHeight,
     LastBlockAppHash |-> NewCometApp(store).lastHash]

\* The step on which a Commit that follows a FinalizeBlock returns success.
CommitOfBlockSucceeds ==
    /\ running /\ pc = "WriteSync" /\ executed
    /\ pc' = "Idle" /\ resp'.op = "Commit" /\ ~resp'.err

\* A step on which a Commit returns, with or without an error.
CommitReturns ==
    /\ running /\ running'
    /\ pc' = "Idle" /\ resp'.op = "Commit" /\ resp'.done

\* C1: when the Commit that follows FinalizeBlock(H, txs) = h succeeds, a
\* restart on the store it leaves followed by Info reports exactly (H, h).
C1_RestartReportsCommittedBlock ==
    [][CommitOfBlockSucceeds =>
         InfoAfterRestart(db') =
           [LastBlockHeight |-> lastHeight, LastBlockAppHash |-> lastHash]]_vars

\* C2: whenever Info can be called, also between FinalizeBlock and Commit, it
\* reports the pair held by the store's reserved entries ((0, empty) if none).
C2_InfoReportsDurablePair ==
    Ready => InfoResponse = InfoAfterRestart(db)

\* C3: a Commit with no FinalizeBlock before it for the same height returns an
\* error and leaves the store exactly as it was.
C3_CommitWithoutFinalizeFails ==
    [][(CommitReturns /\ ~executed) => (resp'.err /\ db' = db)]_vars

\* C4: a FinalizeBlock called while an executed block is still uncommitted
\* fails: it returns no normal result and keeps the pending height and AppHash.
C4_SecondFinalizeBlockFails ==
    [][(Ready /\ executed /\ resp'.op = "FinalizeBlock") =>
         /\ (~running' \/ resp'.err)
         /\ lastHeight' = lastHeight
         /\ lastHash' = lastHash]_vars

\* The store holding exactly the two reserved entries of the block (height, hash),
\* as Commit writes them; the empty store before any block.
CommittedStore(height, hash) ==
    IF height = 0 THEN EmptyDB
    ELSE (KeyLastAppHash :> hash) @@ (KeyLastHeight :> HeightByte(height))

\* C5: in every state, and so at every point of Commit a crash can strike,
\* the store holds the complete pair of one block: the pair of the last block
\* whose Commit succeeded, never one entry of the block being committed beside
\* the other entry of the block before it.
C5_CommitIsAtomic ==
    db = CommittedStore(engine.height, engine.appHash)

\* C5 witness: the process crashed inside Commit, before the flush, while
\* committing a block on top of an earlier one.
C5_Witness ==
    /\ ~running /\ pc = "WriteSync" /\ executed
    /\ engine.height >= 1
    /\ Len(batch) = 2

\* C6: after a crash that follows FinalizeBlock(H) and precedes the success of
\* Commit(H), the restarted application reports in Info the height and AppHash
\* of the last block whose Commit succeeded.
C6_RestartReportsLastCommitted ==
    [][(~running /\ executed /\ running') =>
         /\ lastHeight' = engine.height
         /\ lastHash' = engine.appHash]_vars

\* C7: the height recovered from the store starts at 0, grows by exactly 1 on
\* every successful Commit of the next block, and changes on no other step.
C7_HeightGrowsByOne ==
    /\ InfoAfterRestart(db).LastBlockHeight = 0
    /\ [][InfoAfterRestart(db').LastBlockHeight =
            IF CommitOfBlockSucceeds
            THEN InfoAfterRestart(db).LastBlockHeight + 1
            ELSE InfoAfterRestart(db).LastBlockHeight]_vars

\* C8: once a block H is committed, lastHeight holds the 8-byte big-endian
\* encoding of H and lastAppHash the AppHash FinalizeBlock(H) returned.
C8_StoredLayout ==
    engine.height >= 1 =>
        /\ Get(db, KeyLastHeight) = PutUint64(engine.height)
        /\ Get(db, KeyLastAppHash) = engine.appHash

\* C9: the store changes on no step but the flush of a Commit that returns
\* success; CheckTx, PrepareProposal, ProcessProposal, FinalizeBlock, Info and
\* Query leave every key as it was.
C9_OnlyCommitWritesStore ==
    [][db' # db =>
         /\ pc = "WriteSync"
         /\ resp'.op = "Commit"
         /\ ~resp'.err]_vars

\* C9 witness: FinalizeBlock has executed a block on top of a committed one and
\* the store still holds the committed block's entries.
C9_Witness ==
    /\ resp.op = "FinalizeBlock"
    /\ engine.height >= 1
    /\ lastHash # engine.appHash
    /\ db = CommittedStore(engine.height, engine.appHash)

C11_ProcessProposalEnforcesBudget ==
    [][(/\ resp.op = "ProposalPending"
        /\ resp.req.MaxTxBytes >= 0
        /\ resp'.op = "ProcessProposal") =>
         resp'.Status = IF TotalBytes(resp.req.Txs) > resp.req.MaxTxBytes
                        THEN "REJECT"
                        ELSE "ACCEPT"]_vars


\* C12: the TxResults FinalizeBlock returns has one entry per transaction of
\* the request, in the request's order, none of them nil, each the result
\* (Code 0) of its transaction; an empty list of transactions gives none.
C12_OneResultPerTx ==
    resp.op = "FinalizeBlock" =>
        /\ Len(resp.TxResults) = Len(resp.req.Txs)
        /\ DOMAIN resp.TxResults = 1..Len(resp.req.Txs)
        /\ \A i \in 1..Len(resp.req.Txs) :
             /\ ~resp.TxResults[i].isNil
             /\ resp.TxResults[i] = ExecTxResult

\* C12 witness: FinalizeBlock answered a block of two transactions with two
\* results, after having answered blocks before it.
C12_Witness ==
    /\ resp.op = "FinalizeBlock"
    /\ Len(resp.req.Txs) = 2
    /\ Len(resp.TxResults) = 2
    /\ resp.req.Height >= 2


C15_FlushFailureIsFatal ==
    [][(/\ running
        /\ resp.op = "Commit" /\ resp.done /\ resp.err
        /\ InfoResponse # InfoAfterRestart(db)) =>
         ~running']_vars


\* C16: an application built on a store that holds neither reserved entry, and
\* not asked to execute a block since, reports height 0 and an empty AppHash
\* in Info.
C16_GenesisHandshake ==
    (/\ resp.op = "Info"
     /\ ~executed
     /\ KeyLastHeight \notin DOMAIN db
     /\ KeyLastAppHash \notin DOMAIN db) =>
        /\ resp.LastBlockHeight = 0
        /\ resp.LastBlockAppHash = nil

\* C16 witness: Info answered on a store without entries, on an application
\* that has executed no block.
C16_Witness ==
    /\ resp.op = "Info"
    /\ ~executed
    /\ db = EmptyDB
    /\ resp.LastBlockHeight = 0

\* The handlers that may run between two Info calls of the claim.
ReadOnlyOps == {"Info", "CheckTx", "Query", "PrepareProposal", "ProcessProposal"}

\* C17: Info answers with the application's (height, AppHash) and changes
\* neither them nor the store, and CheckTx, Query, PrepareProposal and
\* ProcessProposal change none of them either: two Info calls with only such
\* calls between them return the same result.
C17_InfoIdempotent ==
    [][resp'.op \in ReadOnlyOps =>
         /\ lastHeight' = lastHeight
         /\ lastHash' = lastHash
         /\ db' = db
         /\ (resp'.op = "Info" =>
               /\ resp'.LastBlockHeight = lastHeight
               /\ resp'.LastBlockAppHash = lastHash)]_vars

\* C17 witness: Info answered while a block is executed and not committed.
C17_Witness ==
    /\ resp.op = "Info"
    /\ executed
    /\ engine.height >= 1
    /\ resp.LastBlockHeight = lastHeight
    /\ resp.LastBlockAppHash = lastHash


\* The lengths n of the prefixes of txs that total at most budget bytes, and 0.
FittingPrefixes(txs, budget) ==
    {0} \cup {n \in 1..Len(txs) : TotalBytes(SubSeq(txs, 1, n)) <= budget}

C19_InfoPairOfOneBlock ==
    resp.op = "Info" =>
        \/ resp.LastBlockHeight = 0 /\ resp.LastBlockAppHash = nil
        \/ \E txs \in BlockTxs :
             resp.LastBlockAppHash = ComputeAppHash(resp.LastBlockHeight, txs)

\* C20: whatever the candidates and the budget MaxTxBytes >= 0, the list
\* PrepareProposal returned is answered ACCEPT when it is handed to
\* ProcessProposal.
C20_PreparedProposalAccepted ==
    [][(/\ resp.op = "PrepareProposal"
        /\ resp.req.MaxTxBytes >= 0
        /\ resp'.op = "ProcessProposal"
        /\ resp'.req.Txs = resp.Txs) =>
         resp'.Status = "ACCEPT"]_vars

\* C13: two replicas whose FinalizeBlock is called with the same prior AppHash,
\* the same height and the same transactions return the same AppHash, whatever
\* their earlier histories, the contents of their stores, and the CheckTx,
\* Query and Info calls made in between.
C13_SameBlockSameAppHash ==
    (/\ resp.op = "FinalizeBlock"
     /\ peer.resp.op = "FinalizeBlock"
     /\ resp.req = peer.resp.req
     /\ resp.prior = peer.resp.prior) =>
        resp.AppHash = peer.resp.AppHash

\* Both replicas have executed the same block on the same prior AppHash, one
\* of them with the earlier block committed to its store and the other not.
C13_Witness ==
    /\ resp.op = "FinalizeBlock"
    /\ peer.resp.op = "FinalizeBlock"
    /\ resp.req = peer.resp.req
    /\ resp.prior = peer.resp.prior
    /\ resp.prior # nil
    /\ db # peer.db
    /\ resp.AppHash = peer.resp.AppHash

====
